---------------------------- MODULE Spec2Model ----------------------------
(***************************************************************************)
(* A model of warden_rust/src/lib.rs: the five entry points of the         *)
(* scanning engine (discover_files, get_file_stats, get_ast_metadata,      *)
(* match_patterns, validate_files) as operations over a small filesystem.  *)
(*                                                                         *)
(* A file's bytes are `pad` ASCII letters (no newline among them), then    *)
(* the byte sequence `tail`, then `fill` more ASCII letters; that keeps    *)
(* the real constants (1024-byte sniff, 1 MiB unit, 50 MB hash cutoff,     *)
(* 200-byte snippet cut) while the part of the content that varies stays   *)
(* short.  The batch operations run one task per input path, in any order, *)
(* and collect the tasks' outputs in input order.                          *)
(***************************************************************************)
EXTENDS Integers, Sequences, FiniteSets, TLC

VARIABLES pc, op, fs, args, slots, result, opened, failed, queries

vars == <<pc, op, fs, args, slots, result, opened, failed, queries>>

---------------------------------------------------------------------------
(* Bounds of the model.                                                    *)

\* longest varying part of a file's content, in bytes
MaxTail == 3
\* longest input path list of the batch operations
MaxFiles == 2
\* longest varying part of a parent node's first line, in characters
MaxChars == 2

---------------------------------------------------------------------------
(* Program constants.                                                      *)

SniffLen == 1024
KiB == 1024
DefaultMaxSizeMb == 100
BinaryHashCutoff == 50000000
SnippetCut == 200

MiB == KiB * KiB

---------------------------------------------------------------------------
(* Bytes, contents and filesystem entries.                                 *)

\* "a": an ASCII letter, "SP": a space, "LF": a newline, "NUL": a zero
\* byte, "BAD": a byte that is not valid UTF-8 (0xFF)
Bytes == {"a", "SP", "LF", "NUL", "BAD"}

Min(x, y) == IF x <= y THEN x ELSE y

SeqsUpTo(S, n) == UNION {[1..k -> S] : k \in 0..n}

Paths == {"a.py", "b.H"}

\* the order in which the walk yields the entries of the tree
WalkOrder == <<"a.py", "b.H">>

FileLen(e) == e.pad + Len(e.tail) + e.fill

\* walk_ok: the walk yields the entry; is_file: its type is a regular file;
\* meta_ok, open_ok, read_ok: metadata(), File::open and read succeed on it
Entry(walk_ok, is_file, meta_ok, open_ok, read_ok, pad, tail, fill) ==
    [walk_ok |-> walk_ok, is_file |-> is_file, meta_ok |-> meta_ok,
     open_ok |-> open_ok, read_ok |-> read_ok, pad |-> pad, tail |-> tail,
     fill |-> fill]

\* a regular readable file
Readable(pad, tail, fill) == Entry(TRUE, TRUE, TRUE, TRUE, TRUE, pad, tail, fill)

\* a file that exists and cannot be opened (permission denied)
Unopenable(pad, tail) == Entry(TRUE, TRUE, TRUE, FALSE, FALSE, pad, tail, 0)

\* a file deleted after the listing: neither metadata nor open succeed
Deleted == Entry(TRUE, TRUE, FALSE, FALSE, FALSE, 0, <<>>, 0)

\* a directory: it opens, and every read of it fails
Directory == Entry(TRUE, FALSE, TRUE, TRUE, FALSE, 0, <<>>, 0)

\* a path that does not exist
Missing == Entry(FALSE, FALSE, FALSE, FALSE, FALSE, 0, <<>>, 0)

\* the first n bytes of a content
TakeBytes(e, n) ==
    LET p == Min(e.pad, n)
        t == Min(Len(e.tail), n - p)
    IN [pad |-> p, tail |-> SubSeq(e.tail, 1, t),
        fill |-> Min(e.fill, n - p - t)]

\* file.read(&mut buffer).unwrap_or(0) on a 1024-byte buffer
ReadPrefix(e) ==
    IF e.read_ok THEN TakeBytes(e, SniffLen)
    ELSE [pad |-> 0, tail |-> <<>>, fill |-> 0]

\* content_inspector::inspect(buf) == ContentType::BINARY: a zero byte in
\* the buffer
RECURSIVE HasNul(_)
HasNul(s) ==
    IF s = <<>> THEN FALSE
    ELSE IF Head(s) = "NUL" THEN TRUE ELSE HasNul(Tail(s))

InspectIsBinary(buf) == HasNul(buf.tail)

---------------------------------------------------------------------------
(* detect_language_rs                                                      *)

PathExt(path) ==
    CASE path = "a.py" -> "py"
      [] path = "b.H" -> "H"
      [] OTHER -> ""

ToLowercase(s) == IF s = "H" THEN "h" ELSE s

detect_language_rs(path) ==
    LET ext == ToLowercase(PathExt(path))
    IN CASE ext \in {"py", "pyw"} -> "python"
         [] ext \in {"js", "jsx", "mjs", "cjs"} -> "javascript"
         [] ext = "ts" -> "typescript"
         [] ext = "tsx" -> "tsx"
         [] ext = "go" -> "go"
         [] ext = "rs" -> "rust"
         [] ext = "java" -> "java"
         [] ext = "dart" -> "dart"
         [] ext = "swift" -> "swift"
         [] ext \in {"kt", "kts"} -> "kotlin"
         [] ext = "c" -> "c"
         [] ext = "h" -> "c"
         [] ext \in {"cpp", "cc", "cxx", "hpp", "hh"} -> "cpp"
         [] ext = "cs" -> "csharp"
         [] ext = "rb" -> "ruby"
         [] ext = "php" -> "php"
         [] ext = "md" -> "markdown"
         [] ext \in {"yaml", "yml"} -> "yaml"
         [] ext = "json" -> "json"
         [] ext = "sql" -> "sql"
         [] ext = "sh" -> "shell"
         [] OTHER -> "unknown"

---------------------------------------------------------------------------
(* discover_files                                                          *)

\* Option<u64> max_size_mb; a u64 value is hi * 2^44 + lo with lo < 2^44
NoMaxSize == [some |-> FALSE, hi |-> 0, lo |-> 0]
SomeMaxSize(hi, lo) == [some |-> TRUE, hi |-> hi, lo |-> lo]

UnwrapOr(m, d) == IF m.some THEN m ELSE SomeMaxSize(0, d)

\* x * 1024 * 1024 in u64 leaves the 64 bits exactly when hi > 0
MulMiBOverflows(m) == UnwrapOr(m, DefaultMaxSizeMb).hi > 0

\* the product modulo 2^64
SizeLimitBytes(m) == UnwrapOr(m, DefaultMaxSizeMb).lo * MiB

EntrySize(e) == IF e.meta_ok THEN FileLen(e) ELSE 0

\* DiscoverEntry without the `continue` of the binary check
DiscoverEntryNoSniff(path, e, size_limit_bytes) ==
    IF ~e.walk_ok THEN <<>>
    ELSE IF ~e.is_file THEN <<>>
    ELSE IF EntrySize(e) > size_limit_bytes THEN <<>>
    ELSE <<[path |-> path, size |-> EntrySize(e),
            lang |-> detect_language_rs(path)]>>

\* the body of the loop for one entry: the descriptors it pushes
DiscoverEntry(path, e, size_limit_bytes) ==
    IF ~e.walk_ok THEN <<>>
    ELSE IF ~e.is_file THEN <<>>
    ELSE IF EntrySize(e) > size_limit_bytes THEN <<>>
    ELSE IF e.open_ok /\ InspectIsBinary(ReadPrefix(e)) THEN <<>>
    ELSE <<[path |-> path, size |-> EntrySize(e),
            lang |-> detect_language_rs(path)]>>

\* the entries the loop opens
DiscoverOpens(path, e, size_limit_bytes) ==
    e.walk_ok /\ e.is_file /\ EntrySize(e) <= size_limit_bytes /\ e.open_ok

RECURSIVE DiscoverWalk(_, _, _)
DiscoverWalk(tree, order, size_limit_bytes) ==
    IF order = <<>> THEN <<>>
    ELSE DiscoverEntry(Head(order), tree[Head(order)], size_limit_bytes)
         \o DiscoverWalk(tree, Tail(order), size_limit_bytes)

\* what the walk can yield for a path
DiscoverSizes == {0, SniffLen - 1, SniffLen, MiB - 1, MiB,
                  DefaultMaxSizeMb * MiB - 1, DefaultMaxSizeMb * MiB}

DiscoverTails == SeqsUpTo({"a", "NUL"}, MaxTail - 1)

DiscoverEntries ==
    {Readable(p, t, 0) : p \in DiscoverSizes, t \in DiscoverTails}
    \cup {Unopenable(p, t) : p \in {0, MiB}, t \in {<<"a">>, <<"NUL">>}}
    \cup {Readable(0, <<"NUL">>, MiB),
          Entry(TRUE, TRUE, TRUE, TRUE, FALSE, 0, <<"NUL">>, 0),
          Deleted, Directory, Missing}

DiscoverSecond ==
    {Readable(0, <<"a">>, 0), Readable(0, <<"NUL">>, 0),
     Unopenable(0, <<"a">>), Missing}

DiscoverTrees ==
    {t \in [Paths -> DiscoverEntries] : t["b.H"] \in DiscoverSecond}

MaxSizeArgs == {NoMaxSize, SomeMaxSize(0, 0), SomeMaxSize(0, 1), SomeMaxSize(1, 1)}

NoArgs == [none |-> TRUE]

NoFs == [p \in Paths |-> Missing]

discover_files ==
    /\ pc = "idle"
    /\ \E tree \in DiscoverTrees, max_size_mb \in MaxSizeArgs,
          overflow_checks \in BOOLEAN :
         /\ fs' = tree
         /\ args' = [max_size_mb |-> max_size_mb,
                     overflow_checks |-> overflow_checks]
         /\ IF MulMiBOverflows(max_size_mb) /\ overflow_checks
            THEN /\ failed' = TRUE
                 /\ result' = <<>>
                 /\ opened' = {}
            ELSE /\ failed' = FALSE
                 /\ result' = DiscoverWalk(tree, WalkOrder,
                                           SizeLimitBytes(max_size_mb))
                 /\ opened' = {p \in Paths :
                                 DiscoverOpens(p, tree[p],
                                               SizeLimitBytes(max_size_mb))}
    /\ op' = "discover_files"
    /\ pc' = "done"
    /\ slots' = <<>>
    /\ queries' = <<>>

---------------------------------------------------------------------------
(* BufReader::lines()                                                      *)

\* A line is `pad` letters, then `bytes`, then `fill` letters; the newline
\* that ends it is stripped.  A content that ends in a newline has no
\* further (empty) line after it.
RECURSIVE LinesFrom(_, _, _, _)
LinesFrom(s, curpad, cur, fill) ==
    IF s = <<>>
    THEN IF curpad = 0 /\ cur = <<>> /\ fill = 0 THEN <<>>
         ELSE <<[pad |-> curpad, bytes |-> cur, fill |-> fill]>>
    ELSE IF Head(s) = "LF"
         THEN <<[pad |-> curpad, bytes |-> cur, fill |-> 0]>>
              \o LinesFrom(Tail(s), 0, <<>>, fill)
         ELSE LinesFrom(Tail(s), curpad, Append(cur, Head(s)), fill)

ReadLines(e) == LinesFrom(e.tail, e.pad, <<>>, e.fill)

\* line_result is Ok: the line's bytes are valid UTF-8
RECURSIVE IsUtf8(_)
IsUtf8(s) ==
    IF s = <<>> THEN TRUE
    ELSE IF Head(s) = "BAD" THEN FALSE ELSE IsUtf8(Tail(s))

LineOk(line) == IsUtf8(line.bytes)

\* lines() on a handle whose reads fail yields Err without end: the loop
\* over it never finishes
LinesDiverge(e) == e.open_ok /\ ~e.read_ok

---------------------------------------------------------------------------
(* get_file_stats                                                          *)

\* A digest is modelled by the byte stream it was fed: "lines" is each kept
\* line followed by a newline, "raw" the whole content, "empty" the empty
\* string String::new().
EmptyHash == [kind |-> "empty", data |-> <<>>]

RECURSIVE OkLines(_)
OkLines(ls) ==
    IF ls = <<>> THEN <<>>
    ELSE IF LineOk(Head(ls)) THEN <<Head(ls)>> \o OkLines(Tail(ls))
         ELSE OkLines(Tail(ls))

\* the loop of lines 170-176: line_count and the hasher's input
TextPass(e) ==
    LET kept == OkLines(ReadLines(e))
    IN [line_count |-> Len(kept), hash |-> [kind |-> "lines", data |-> kept]]

RawHash(e) ==
    [kind |-> "raw",
     data |-> <<[pad |-> e.pad, bytes |-> e.tail, fill |-> e.fill]>>]

\* FileStatsOf with the metadata read only once the file is open
FileStatsOfSizeAfterOpen(path, e) ==
    LET size == IF e.meta_ok /\ e.open_ok THEN FileLen(e) ELSE 0
        base == [path |-> path, size |-> size, line_count |-> 0,
                 is_binary |-> FALSE, hash |-> EmptyHash,
                 language |-> detect_language_rs(path)]
        is_binary == InspectIsBinary(ReadPrefix(e))
    IN IF ~e.open_ok THEN base
       ELSE IF ~is_binary
            THEN [base EXCEPT !.line_count = TextPass(e).line_count,
                              !.hash = TextPass(e).hash]
            ELSE IF size < BinaryHashCutoff /\ e.read_ok
                 THEN [base EXCEPT !.is_binary = TRUE, !.hash = RawHash(e)]
                 ELSE [base EXCEPT !.is_binary = TRUE]

FileStatsOf(path, e) ==
    LET size == IF e.meta_ok THEN FileLen(e) ELSE 0
        base == [path |-> path, size |-> size, line_count |-> 0,
                 is_binary |-> FALSE, hash |-> EmptyHash,
                 language |-> detect_language_rs(path)]
        is_binary == InspectIsBinary(ReadPrefix(e))
    IN IF ~e.open_ok THEN base
       ELSE IF ~is_binary
            THEN [base EXCEPT !.line_count = TextPass(e).line_count,
                              !.hash = TextPass(e).hash]
            ELSE IF size < BinaryHashCutoff /\ e.read_ok
                 THEN [base EXCEPT !.is_binary = TRUE, !.hash = RawHash(e)]
                 ELSE [base EXCEPT !.is_binary = TRUE]

\* the text branch loops over lines()
StatsDiverges(e) ==
    e.open_ok /\ ~InspectIsBinary(ReadPrefix(e)) /\ LinesDiverge(e)

StatsPasses(path, e) ==
    IF ~e.open_ok THEN {}
    ELSE {[path |-> path, pass |-> "sniff"]}
         \cup (IF ~InspectIsBinary(ReadPrefix(e))
               THEN {[path |-> path, pass |-> "lines"]}
               ELSE IF EntrySize(e) < BinaryHashCutoff
                    THEN {[path |-> path, pass |-> "raw"]} ELSE {})

StatsTails == SeqsUpTo(Bytes, MaxTail)

StatsEntries ==
    {Readable(0, t, 0) : t \in StatsTails}
    \cup {Readable(p, t, 0) : p \in {SniffLen - 1, SniffLen},
                              t \in {<<"NUL">>, <<"LF", "NUL">>, <<"BAD">>}}
    \cup {Readable(0, <<"NUL">>, f) :
            f \in {BinaryHashCutoff - 2, BinaryHashCutoff - 1}}
    \cup {Unopenable(p, <<"a", "LF">>) : p \in {0, 1}}
    \cup {Entry(TRUE, TRUE, FALSE, TRUE, TRUE, 0, <<"a">>, 0),
          Directory, Missing}

StatsSecond == {Readable(0, <<"a", "LF", "a">>, 0), Unopenable(0, <<"a">>), Missing}

StatsWorlds ==
    {w \in [Paths -> StatsEntries] : w["b.H"] \in StatsSecond}

PathLists == SeqsUpTo(Paths, MaxFiles)

Pending == [done |-> FALSE, out |-> <<>>]

get_file_stats ==
    /\ pc = "idle"
    /\ \E world \in StatsWorlds, paths \in PathLists :
         /\ fs' = world
         /\ args' = [paths |-> paths]
         /\ slots' = [i \in 1..Len(paths) |-> Pending]
    /\ op' = "get_file_stats"
    /\ pc' = "running"
    /\ result' = <<>>
    /\ opened' = {}
    /\ failed' = FALSE
    /\ queries' = <<>>

\* one element of paths.par_iter().map(..): any pending one may run next
stats_task ==
    /\ pc = "running"
    /\ op = "get_file_stats"
    /\ \E i \in DOMAIN slots :
         /\ ~slots[i].done
         /\ ~StatsDiverges(fs[args.paths[i]])
         /\ slots' = [slots EXCEPT ![i] =
                        [done |-> TRUE,
                         out |-> <<FileStatsOf(args.paths[i], fs[args.paths[i]])>>]]
         /\ opened' = opened \cup StatsPasses(args.paths[i], fs[args.paths[i]])
    /\ UNCHANGED <<pc, op, fs, args, result, failed, queries>>

RECURSIVE Concat(_, _)
Concat(ss, i) ==
    IF i > Len(ss) THEN <<>> ELSE ss[i].out \o Concat(ss, i + 1)

\* collect(): the tasks' outputs in the order of the input
Collect ==
    /\ pc = "running"
    /\ \A i \in DOMAIN slots : slots[i].done
    /\ result' = Concat(slots, 1)
    /\ pc' = "done"
    /\ UNCHANGED <<op, fs, args, slots, opened, failed, queries>>

---------------------------------------------------------------------------
(* Rules and regular expressions.                                          *)

\* A pattern is a sequence of literal bytes; "(" opens a group that is
\* never closed, which Regex::new rejects.
PatA == <<"a">>
PatSpA == <<"SP", "a">>
PatAA == <<"a", "a">>
PatEmpty == <<>>
PatBad == <<"(">>

RustRule(id, pattern) == [id |-> id, pattern |-> pattern]

RECURSIVE Compiles(_)
Compiles(pattern) ==
    IF pattern = <<>> THEN TRUE
    ELSE IF Head(pattern) = "(" THEN FALSE ELSE Compiles(Tail(pattern))

\* rules.into_iter().filter_map(|r| Regex::new(&r.pattern).ok()...)
RECURSIVE CompileRules(_)
CompileRules(rules) ==
    IF rules = <<>> THEN <<>>
    ELSE IF Compiles(Head(rules).pattern)
         THEN <<Head(rules)>> \o CompileRules(Tail(rules))
         ELSE CompileRules(Tail(rules))

Letters(n) == [k \in 1..n |-> "a"]

LineBytes(line) == Letters(line.pad) \o line.bytes \o Letters(line.fill)

NoMatch == -1

\* re.find(&line).start(): the byte offset of the leftmost match, scanning
\* the start positions from k on
RECURSIVE FindFrom(_, _, _)
FindFrom(s, pattern, k) ==
    IF k + Len(pattern) > Len(s) THEN NoMatch
    ELSE IF SubSeq(s, k + 1, k + Len(pattern)) = pattern THEN k
         ELSE FindFrom(s, pattern, k + 1)

Find(pattern, s) == FindFrom(s, pattern, 0)

\* str::trim
RECURSIVE TrimStart(_)
TrimStart(s) ==
    IF s = <<>> THEN <<>>
    ELSE IF Head(s) = "SP" THEN TrimStart(Tail(s)) ELSE s

RECURSIVE TrimEnd(_)
TrimEnd(s) ==
    IF s = <<>> THEN <<>>
    ELSE IF s[Len(s)] = "SP" THEN TrimEnd(SubSeq(s, 1, Len(s) - 1)) ELSE s

Trim(s) == TrimEnd(TrimStart(s))

---------------------------------------------------------------------------
(* match_patterns                                                          *)

\* LineHits with a `break` after the first rule that matches the line
RECURSIVE LineHitsFirstRuleOnly(_, _, _, _)
LineHitsFirstRuleOnly(file_path, ln, line, compiled) ==
    IF compiled = <<>> THEN <<>>
    ELSE LET m == FindFrom(LineBytes(line), Head(compiled).pattern, 0)
         IN IF m # NoMatch
            THEN <<[file_path |-> file_path, line_number |-> ln + 1,
                    column |-> m + 1, rule_id |-> Head(compiled).id,
                    snippet |-> Trim(LineBytes(line))]>>
            ELSE LineHitsFirstRuleOnly(file_path, ln, line, Tail(compiled))

\* the inner loop over the compiled rules for one decoded line
RECURSIVE LineHits(_, _, _, _)
LineHits(file_path, ln, line, compiled) ==
    IF compiled = <<>> THEN <<>>
    ELSE LET m == Find(Head(compiled).pattern, LineBytes(line))
             rest == LineHits(file_path, ln, line, Tail(compiled))
         IN IF m # NoMatch
            THEN <<[file_path |-> file_path, line_number |-> ln + 1,
                    column |-> m + 1, rule_id |-> Head(compiled).id,
                    snippet |-> Trim(LineBytes(line))]>> \o rest
            ELSE rest

\* the loop over reader.lines().enumerate(), from index ln on
RECURSIVE FileHitsFrom(_, _, _, _)
FileHitsFrom(file_path, lines, ln, compiled) ==
    IF ln >= Len(lines) THEN <<>>
    ELSE (IF LineOk(lines[ln + 1])
          THEN LineHits(file_path, ln, lines[ln + 1], compiled)
          ELSE <<>>)
         \o FileHitsFrom(file_path, lines, ln + 1, compiled)

\* the closure of flat_map for one file
FileHits(file_path, e, compiled) ==
    IF e.open_ok THEN FileHitsFrom(file_path, ReadLines(e), 0, compiled)
    ELSE <<>>

ScanTails == SeqsUpTo({"a", "SP", "LF", "BAD"}, MaxTail)

ScanEntries ==
    {Readable(0, t, 0) : t \in ScanTails}
    \cup {Unopenable(0, <<"a">>), Directory, Missing}

ScanSecond == {Readable(0, <<"a", "LF", "a">>, 0), Unopenable(0, <<"a">>), Missing}

ScanWorlds ==
    {w \in [Paths -> ScanEntries] : w["b.H"] \in ScanSecond}

RuleLists ==
    {<<>>,
     <<RustRule("r1", PatBad)>>,
     <<RustRule("r1", PatBad), RustRule("r2", PatBad)>>,
     <<RustRule("r1", PatA)>>,
     <<RustRule("r1", PatEmpty)>>,
     <<RustRule("r1", PatAA), RustRule("r2", PatBad), RustRule("r3", PatSpA)>>,
     <<RustRule("r1", PatA), RustRule("r1", PatSpA)>>}

\* never taking the early return
EarlyReturnNever(compiled_rules) == FALSE

\* if compiled_rules.is_empty() { return Ok(Vec::new()); }
EarlyReturn(compiled_rules) == compiled_rules = <<>>

match_patterns ==
    /\ pc = "idle"
    /\ \E world \in ScanWorlds, files \in PathLists, rules \in RuleLists :
         /\ fs' = world
         /\ args' = [files |-> files, rules |-> rules]
         /\ IF EarlyReturn(CompileRules(rules))
            THEN /\ pc' = "done"
                 /\ slots' = <<>>
            ELSE /\ pc' = "running"
                 /\ slots' = [i \in 1..Len(files) |-> Pending]
    /\ op' = "match_patterns"
    /\ result' = <<>>
    /\ opened' = {}
    /\ failed' = FALSE
    /\ queries' = <<>>

\* one element of files.par_iter().flat_map(..)
match_task ==
    /\ pc = "running"
    /\ op = "match_patterns"
    /\ \E i \in DOMAIN slots :
         /\ ~slots[i].done
         /\ ~LinesDiverge(fs[args.files[i]])
         /\ slots' = [slots EXCEPT ![i] =
                        [done |-> TRUE,
                         out |-> FileHits(args.files[i], fs[args.files[i]],
                                          CompileRules(args.rules))]]
         /\ opened' = opened \cup
                (IF fs[args.files[i]].open_ok
                 THEN {[path |-> args.files[i], pass |-> "scan"]} ELSE {})
    /\ UNCHANGED <<pc, op, fs, args, result, failed, queries>>

---------------------------------------------------------------------------
(* validate_files                                                          *)

MetricRule(id, metric_type, threshold) ==
    [id |-> id, metric_type |-> metric_type, threshold |-> threshold]

SizeMessage(size, threshold) ==
    [kind |-> "File size", observed |-> size, threshold |-> threshold]

LineCountMessage(line_count, threshold) ==
    [kind |-> "Line count", observed |-> line_count, threshold |-> threshold]

PatternMessage == [kind |-> "Pattern match found", observed |-> 0, threshold |-> 0]

\* the loop of lines 439-449
RECURSIVE SizeResults(_, _, _)
SizeResults(path, size, metric_rules) ==
    IF metric_rules = <<>> THEN <<>>
    ELSE LET rule == Head(metric_rules)
             rest == SizeResults(path, size, Tail(metric_rules))
         IN IF rule.metric_type = "size_bytes" /\ size > rule.threshold
            THEN <<[rule_id |-> rule.id, file_path |-> path,
                    message |-> SizeMessage(size, rule.threshold),
                    line |-> 0, snippet |-> <<>>]>> \o rest
            ELSE rest

\* the loop of lines 457-467
RECURSIVE LineCountResults(_, _, _)
LineCountResults(path, line_count, metric_rules) ==
    IF metric_rules = <<>> THEN <<>>
    ELSE LET rule == Head(metric_rules)
             rest == LineCountResults(path, line_count, Tail(metric_rules))
         IN IF rule.metric_type = "line_count" /\ line_count > rule.threshold
            THEN <<[rule_id |-> rule.id, file_path |-> path,
                    message |-> LineCountMessage(line_count, rule.threshold),
                    line |-> 0, snippet |-> <<>>]>> \o rest
            ELSE rest

\* counting the lines whenever there is any metric rule
CheckLinesAnyRule(metric_rules) == metric_rules # <<>>

\* metric_rules.iter().any(|r| r.metric_type == "line_count")
CheckLines(metric_rules) ==
    \E k \in DOMAIN metric_rules : metric_rules[k].metric_type = "line_count"

\* the file is opened and read to count its lines
CountPass(e, metric_rules) ==
    metric_rules # <<>> /\ e.meta_ok /\ CheckLines(metric_rules) /\ e.open_ok

\* the file is opened and read to scan its lines
ScanPass(e, compiled_regexes) == compiled_regexes # <<>> /\ e.open_ok

\* step 1 of the closure: the metadata metrics
MetricResults(path, e, metric_rules) ==
    IF metric_rules # <<>> /\ e.meta_ok
    THEN SizeResults(path, FileLen(e), metric_rules)
         \o (IF CheckLines(metric_rules) /\ e.open_ok
             THEN LineCountResults(path, Len(ReadLines(e)), metric_rules)
             ELSE <<>>)
    ELSE <<>>

RECURSIVE LineResults(_, _, _, _)
LineResults(path, ln, line, compiled) ==
    IF compiled = <<>> THEN <<>>
    ELSE LET rest == LineResults(path, ln, line, Tail(compiled))
         IN IF Find(Head(compiled).pattern, LineBytes(line)) # NoMatch
            THEN <<[rule_id |-> Head(compiled).id, file_path |-> path,
                    message |-> PatternMessage, line |-> ln + 1,
                    snippet |-> Trim(LineBytes(line))]>> \o rest
            ELSE rest

RECURSIVE RegexResultsFrom(_, _, _, _)
RegexResultsFrom(path, lines, ln, compiled) ==
    IF ln >= Len(lines) THEN <<>>
    ELSE (IF LineOk(lines[ln + 1])
          THEN LineResults(path, ln, lines[ln + 1], compiled)
          ELSE <<>>)
         \o RegexResultsFrom(path, lines, ln + 1, compiled)

\* step 2 of the closure: the regex patterns
RegexResults(path, e, compiled_regexes) ==
    IF ScanPass(e, compiled_regexes)
    THEN RegexResultsFrom(path, ReadLines(e), 0, compiled_regexes)
    ELSE <<>>

\* FileResults with the two steps in the other order
FileResultsRegexFirst(path, e, compiled_regexes, metric_rules) ==
    RegexResults(path, e, compiled_regexes)
    \o MetricResults(path, e, metric_rules)

\* the closure of flat_map for one file
FileResults(path, e, compiled_regexes, metric_rules) ==
    MetricResults(path, e, metric_rules)
    \o RegexResults(path, e, compiled_regexes)

ValidatePasses(path, e, compiled_regexes, metric_rules) ==
    (IF CountPass(e, metric_rules)
     THEN {[path |-> path, pass |-> "count"]} ELSE {})
    \cup (IF ScanPass(e, compiled_regexes)
          THEN {[path |-> path, pass |-> "scan"]} ELSE {})

\* lines().count() and the loop over lines() do not end on a handle whose
\* reads fail
ValidateDiverges(e, compiled_regexes, metric_rules) ==
    (CountPass(e, metric_rules) \/ ScanPass(e, compiled_regexes))
    /\ LinesDiverge(e)

ValidateTails == SeqsUpTo({"a", "LF", "BAD"}, MaxTail)

ValidateEntries ==
    {Readable(0, t, 0) : t \in ValidateTails}
    \cup {Unopenable(0, <<"a">>), Directory, Missing,
          Entry(TRUE, TRUE, FALSE, TRUE, TRUE, 0, <<"a", "LF", "a">>, 0)}

ValidateWorlds ==
    {w \in [Paths -> ValidateEntries] : w["b.H"] \in ScanSecond}

RegexLists ==
    {<<>>, <<RustRule("r1", PatBad)>>, <<RustRule("r1", PatA)>>}

MetricLists ==
    {<<>>,
     <<MetricRule("big", "size_bytes", 2)>>,
     <<MetricRule("long", "line_count", 1)>>,
     <<MetricRule("any", "line_count", 0), MetricRule("big", "size_bytes", 0)>>,
     <<MetricRule("odd", "complexity", 0)>>}

validate_files ==
    /\ pc = "idle"
    /\ \E world \in ValidateWorlds, files \in PathLists,
          regex_rules \in RegexLists, metric_rules \in MetricLists :
         /\ fs' = world
         /\ args' = [files |-> files, regex_rules |-> regex_rules,
                     metric_rules |-> metric_rules]
         /\ slots' = [i \in 1..Len(files) |-> Pending]
    /\ op' = "validate_files"
    /\ pc' = "running"
    /\ result' = <<>>
    /\ opened' = {}
    /\ failed' = FALSE
    /\ queries' = <<>>

\* one element of files.par_iter().flat_map(..)
validate_task ==
    /\ pc = "running"
    /\ op = "validate_files"
    /\ \E i \in DOMAIN slots :
         LET path == args.files[i]
             compiled_regexes == CompileRules(args.regex_rules)
         IN /\ ~slots[i].done
            /\ ~ValidateDiverges(fs[path], compiled_regexes, args.metric_rules)
            /\ slots' = [slots EXCEPT ![i] =
                           [done |-> TRUE,
                            out |-> FileResults(path, fs[path], compiled_regexes,
                                                args.metric_rules)]]
            /\ opened' = opened \cup
                   ValidatePasses(path, fs[path], compiled_regexes,
                                  args.metric_rules)
    /\ UNCHANGED <<pc, op, fs, args, result, failed, queries>>

---------------------------------------------------------------------------
(* get_ast_metadata                                                        *)

\* A string is `pad` ASCII letters followed by the characters `chars`:
\* "a" is one byte long, "U2" a two-byte and "U3" a three-byte character,
\* "LF" a newline.
Chars == {"a", "U2", "U3", "LF"}

Str(pad, chars) == [pad |-> pad, chars |-> chars]

ByteWidth(c) == CASE c = "U2" -> 2 [] c = "U3" -> 3 [] OTHER -> 1

RECURSIVE BytesOf(_)
BytesOf(chars) ==
    IF chars = <<>> THEN 0 ELSE ByteWidth(Head(chars)) + BytesOf(Tail(chars))

\* str::len(), in bytes
StrLen(str) == str.pad + BytesOf(str.chars)

RECURSIVE UpToNewline(_)
UpToNewline(chars) ==
    IF chars = <<>> THEN <<>>
    ELSE IF Head(chars) = "LF" THEN <<>>
         ELSE <<Head(chars)>> \o UpToNewline(Tail(chars))

\* str.lines().next().unwrap_or(text)
FirstLineOr(str, text) ==
    IF StrLen(str) = 0 THEN text ELSE Str(str.pad, UpToNewline(str.chars))

\* str.is_char_boundary(n)
IsCharBoundary(str, n) ==
    \/ n <= str.pad
    \/ \E k \in 0..Len(str.chars) : str.pad + BytesOf(SubSeq(str.chars, 1, k)) = n

\* &str[..n] where n is a character boundary
SliceTo(str, n) ==
    IF n <= str.pad THEN Str(n, <<>>)
    ELSE Str(str.pad,
             SubSeq(str.chars, 1,
                    CHOOSE k \in 0..Len(str.chars) :
                        str.pad + BytesOf(SubSeq(str.chars, 1, k)) = n))

NoGrammar == "None"

get_language_parser(lang) ==
    CASE lang = "python" -> "tree_sitter_python"
      [] lang = "typescript" -> "tree_sitter_typescript"
      [] lang = "javascript" -> "tree_sitter_javascript"
      [] lang = "go" -> "tree_sitter_go"
      [] lang = "java" -> "tree_sitter_java"
      [] OTHER -> NoGrammar

\* (func_q, class_q, imp_q, ref_q)
get_queries(lang) ==
    CASE lang = "python" ->
           <<"(function_definition name: (identifier) @name)",
             "(class_definition name: (identifier) @name)",
             "(import_from_statement (dotted_name (identifier) @name)) (import_statement (dotted_name (identifier) @name))",
             "(identifier) @name">>
      [] lang \in {"typescript", "javascript"} ->
           <<"(function_declaration name: (identifier) @name) (method_definition name: (property_identifier) @name)",
             "(class_declaration name: (type_identifier) @name)",
             "(import_statement (import_clause (named_imports (import_specifier name: (identifier) @name))))",
             "(identifier) @name">>
      [] lang = "go" ->
           <<"(function_declaration name: (identifier) @name) (method_declaration name: (field_identifier) @name)",
             "(type_declaration (type_spec name: (type_identifier) @name))",
             "(import_spec path: (interpreted_string_literal) @name)",
             "(identifier) @name">>
      [] OTHER -> <<"", "", "", "">>

\* the slice &snippet[..200] panics when byte 200 is inside a character
SnippetPanics(first_line) ==
    StrLen(first_line) > SnippetCut /\ ~IsCharBoundary(first_line, SnippetCut)

\* lines 292-297 for one capture: the first line of the parent's text, cut
Snippet(capture) ==
    LET source == IF capture.has_parent THEN capture.parent ELSE capture.text
        first_line == FirstLineOr(source, capture.text)
    IN IF StrLen(first_line) > SnippetCut
       THEN [text |-> SliceTo(first_line, SnippetCut), ellipsis |-> TRUE]
       ELSE [text |-> first_line, ellipsis |-> FALSE]

CapturePanics(capture) ==
    SnippetPanics(FirstLineOr(IF capture.has_parent THEN capture.parent
                              ELSE capture.text, capture.text))

RECURSIVE NodeInfos(_)
NodeInfos(captures) ==
    IF captures = <<>> THEN <<>>
    ELSE <<[name |-> Head(captures).text,
            line_number |-> Head(captures).row + 1,
            code_snippet |-> Snippet(Head(captures))]>>
         \o NodeInfos(Tail(captures))

\* the closure process_query: `captures` is what the cursor yields for the
\* query on the tree, `compiles` whether Query::new accepts the query
process_query(query_str, compiles, captures) ==
    IF query_str = "" THEN <<>>
    ELSE IF compiles THEN NodeInfos(captures) ELSE <<>>

ProcessPanics(query_str, compiles, captures) ==
    /\ query_str # ""
    /\ compiles
    /\ \E k \in DOMAIN captures : CapturePanics(captures[k])

\* lines 312-324
References(ref_q, compiles, names) ==
    IF ref_q # "" /\ compiles THEN names ELSE <<>>

EmptyMetadata ==
    [functions |-> <<>>, classes |-> <<>>, imports |-> <<>>, references |-> <<>>]

LangTags == {"python", "typescript", "javascript", "go", "java", "rust", "tsx"}

Capture(text, row, has_parent, parent) ==
    [text |-> text, row |-> row, has_parent |-> has_parent, parent |-> parent]

\* a one-letter name, and parent texts that start with it
NameF == Str(1, <<>>)

ParentTexts ==
    {Str(p, cs) : p \in {1, SnippetCut - 2, SnippetCut - 1, SnippetCut, SnippetCut + 1},
                  cs \in SeqsUpTo(Chars, MaxChars)}

Captures == {Capture(NameF, 0, TRUE, t) : t \in ParentTexts}

\* what the cursor yields for each of the four queries on the parsed tree
Trees ==
    {[functions |-> f, classes |-> c,
      imports |-> <<Capture(Str(2, <<>>), 2, TRUE, Str(9, <<>>))>>,
      references |-> <<NameF, Str(4, <<>>), Str(2, <<>>)>>] :
        f \in {<<>>} \cup {<<x>> : x \in Captures},
        c \in {<<>>, <<Capture(NameF, 0, TRUE, Str(10, <<"LF", "a">>))>>}}

\* which of the four queries Query::new accepts for the grammar
QueryOks ==
    {[q \in 1..4 |-> TRUE]} \cup {[q \in 1..4 |-> q # bad] : bad \in 1..4}

get_ast_metadata ==
    /\ pc = "idle"
    /\ \E language \in LangTags, tree \in Trees, ok \in QueryOks :
         LET q == get_queries(language)
         IN /\ args' = [language |-> language, tree |-> tree, query_ok |-> ok]
            /\ IF get_language_parser(language) = NoGrammar
               THEN /\ queries' = <<>>
                    /\ failed' = FALSE
                    /\ result' = <<EmptyMetadata>>
               ELSE /\ queries' = q
                    /\ IF \/ ProcessPanics(q[1], ok[1], tree.functions)
                          \/ ProcessPanics(q[2], ok[2], tree.classes)
                          \/ ProcessPanics(q[3], ok[3], tree.imports)
                       THEN /\ failed' = TRUE
                            /\ result' = <<>>
                       ELSE /\ failed' = FALSE
                            /\ result' =
                                 <<[functions |-> process_query(q[1], ok[1], tree.functions),
                                    classes |-> process_query(q[2], ok[2], tree.classes),
                                    imports |-> process_query(q[3], ok[3], tree.imports),
                                    references |-> References(q[4], ok[4], tree.references)]>>
    /\ op' = "get_ast_metadata"
    /\ pc' = "done"
    /\ fs' = NoFs
    /\ slots' = <<>>
    /\ opened' = {}

---------------------------------------------------------------------------

Init ==
    /\ pc = "idle"
    /\ op = "none"
    /\ fs = NoFs
    /\ args = NoArgs
    /\ slots = <<>>
    /\ result = <<>>
    /\ opened = {}
    /\ failed = FALSE
    /\ queries = <<>>

Return ==
    /\ pc = "done"
    /\ pc' = "idle"
    /\ op' = "none"
    /\ fs' = NoFs
    /\ args' = NoArgs
    /\ slots' = <<>>
    /\ result' = <<>>
    /\ opened' = {}
    /\ failed' = FALSE
    /\ queries' = <<>>

NextDiscover == discover_files \/ Return

SpecDiscover == Init /\ [][NextDiscover]_vars

NextStats == get_file_stats \/ stats_task \/ Collect \/ Return

SpecStats == Init /\ [][NextStats]_vars

NextMatch == match_patterns \/ match_task \/ Collect \/ Return

SpecMatch == Init /\ [][NextMatch]_vars

NextValidate == validate_files \/ validate_task \/ Collect \/ Return

SpecValidate == Init /\ [][NextValidate]_vars

NextScan ==
    \/ match_patterns
    \/ match_task
    \/ validate_files
    \/ validate_task
    \/ Collect
    \/ Return

SpecScan == Init /\ [][NextScan]_vars

NextAst == get_ast_metadata \/ Return

SpecAst == Init /\ [][NextAst]_vars

Next ==
    \/ discover_files
    \/ get_file_stats
    \/ stats_task
    \/ get_ast_metadata
    \/ match_patterns
    \/ match_task
    \/ validate_files
    \/ validate_task
    \/ Collect
    \/ Return

Spec == Init /\ [][Next]_vars

---------------------------------------------------------------------------
(* Properties.                                                             *)

Returned(name) == op = name /\ pc = "done" /\ ~failed

\* the mathematical product max_size_mb * 2^20 bounds every u64 once it
\* leaves the 64 bits
WithinMaxSize(size, m) ==
    \/ UnwrapOr(m, DefaultMaxSizeMb).hi > 0
    \/ size <= UnwrapOr(m, DefaultMaxSizeMb).lo * MiB

\* the sniff read the file's first 1024 bytes and found a zero byte
SniffedBinary(e) ==
    /\ e.open_ok
    /\ e.read_ok
    /\ \E k \in 1..Len(e.tail) : e.tail[k] = "NUL" /\ e.pad + k <= SniffLen

\* C1: every descriptor discover_files returns has size <= max_size_mb * 1 MiB
\* (100 by default), and none belongs to a file whose first 1024 bytes the
\* content sniff classified binary.
C1_DiscoverFilters ==
    Returned("discover_files") =>
        \A i \in DOMAIN result :
            /\ WithinMaxSize(result[i].size, args.max_size_mb)
            /\ ~SniffedBinary(fs[result[i].path])

\* C1 witness: a file exactly at the limit is returned while a binary file
\* of the same tree is left out.
C1_Witness ==
    /\ Returned("discover_files")
    /\ args.max_size_mb = SomeMaxSize(0, 1)
    /\ \E i \in DOMAIN result : result[i].size = MiB
    /\ \E p \in Paths :
         SniffedBinary(fs[p]) /\ \A i \in DOMAIN result : result[i].path # p

\* C2: a file entry that cannot be opened is omitted from the descriptors
\* discover_files returns, and the entries after it are still emitted.
C2_UnopenableOmitted ==
    Returned("discover_files") =>
        \A p \in Paths :
            (fs[p].walk_ok /\ fs[p].is_file /\ ~fs[p].open_ok)
                => \A i \in DOMAIN result : result[i].path # p

NumLines(e) ==
    Cardinality({k \in 1..Len(e.tail) : e.tail[k] = "LF"})
    + (IF e.fill > 0 THEN 1
       ELSE IF e.tail # <<>>
            THEN (IF e.tail[Len(e.tail)] = "LF" THEN 0 ELSE 1)
            ELSE (IF e.pad > 0 THEN 1 ELSE 0))

\* C3 (as claimed): get_file_stats returns one FileStats per input path, and
\* for every path that is missing or cannot be opened that FileStats has
\* size 0, line_count 0, is_binary false and an empty hash.
C3_UnopenableAllZero ==
    Returned("get_file_stats") =>
        /\ Len(result) = Len(args.paths)
        /\ \A i \in DOMAIN result :
             ~fs[args.paths[i]].open_ok =>
                 /\ result[i].size = 0
                 /\ result[i].line_count = 0
                 /\ result[i].is_binary = FALSE
                 /\ result[i].hash = EmptyHash

\* C3 (amended): get_file_stats returns one FileStats per input path, in the
\* order of the input; for every path that cannot be opened, line_count is 0,
\* is_binary is false and the hash is empty, and size is what the path's
\* metadata reports, 0 only when the metadata cannot be read either.
C3_UnopenableDegrades ==
    Returned("get_file_stats") =>
        /\ Len(result) = Len(args.paths)
        /\ \A i \in DOMAIN result :
             /\ result[i].path = args.paths[i]
             /\ ~fs[args.paths[i]].open_ok =>
                    /\ result[i].line_count = 0
                    /\ result[i].is_binary = FALSE
                    /\ result[i].hash = EmptyHash
                    /\ fs[args.paths[i]].meta_ok =>
                           result[i].size = FileLen(fs[args.paths[i]])
                    /\ ~fs[args.paths[i]].meta_ok => result[i].size = 0

\* C3 witness: a batch with a missing path and with a file that exists and
\* cannot be opened has returned.
C3_Witness ==
    /\ Returned("get_file_stats")
    /\ \E i, j \in DOMAIN result :
         /\ fs[args.paths[i]] = Missing
         /\ fs[args.paths[j]].meta_ok
         /\ ~fs[args.paths[j]].open_ok
         /\ FileLen(fs[args.paths[j]]) > 0

\* C4: for every file get_file_stats classifies as text, line_count is the
\* number of newline-terminated lines of the file plus one for a final
\* unterminated line, also when lines fail to decode.
C4_LineCountIsNumberOfLines ==
    Returned("get_file_stats") =>
        \A i \in DOMAIN result :
            (fs[args.paths[i]].open_ok /\ ~result[i].is_binary)
                => result[i].line_count = NumLines(fs[args.paths[i]])

MatchesAt(pattern, s, k) ==
    /\ k + Len(pattern) <= Len(s)
    /\ \A j \in 1..Len(pattern) : s[k + j] = pattern[j]

Matches(pattern, s) == \E k \in 0..Len(s) : MatchesAt(pattern, s, k)

Decodes(s) == \A k \in 1..Len(s) : s[k] # "BAD"

NoneCompiles(rules) ==
    \A k \in DOMAIN rules :
        \E j \in DOMAIN rules[k].pattern : rules[k].pattern[j] = "("

\* the line without its leading and trailing spaces
Trimmed(s) ==
    LET ns == {k \in 1..Len(s) : s[k] # "SP"}
    IN IF ns = {} THEN <<>>
       ELSE SubSeq(s, CHOOSE k \in ns : \A j \in ns : k <= j,
                      CHOOSE k \in ns : \A j \in ns : k >= j)

\* C5: when no pattern of the rule list compiles (the empty list included),
\* match_patterns returns an empty sequence at once, without opening any
\* file and without error, whatever the paths are.
C5_NoRulesNoFiles ==
    (op = "match_patterns" /\ NoneCompiles(args.rules)) =>
        /\ pc = "done"
        /\ result = <<>>
        /\ opened = {}
        /\ ~failed

\* C5 witness: a call whose only rules do not compile, on a list that names
\* a path that does not exist, has returned.
C5_Witness ==
    /\ Returned("match_patterns")
    /\ args.rules # <<>>
    /\ NoneCompiles(args.rules)
    /\ \E i \in DOMAIN args.files : fs[args.files[i]] = Missing

\* C6: for every readable file of the list, every decodable line and every
\* compiled rule, the file's hits hold exactly one MatchHit for the rule on
\* that line if the rule matches the line and none otherwise; a hit carries
\* the 1-based line number, column = 1 + the byte offset of the leftmost
\* match in the untrimmed line, and the trimmed line as snippet; and the
\* returned sequence is made of these hits.
C6_OneHitPerLineAndRule ==
    Returned("match_patterns") =>
        /\ \A i \in DOMAIN slots :
             LET e == fs[args.files[i]]
                 out == slots[i].out
                 lines == ReadLines(e)
                 ids == {args.rules[k].id : k \in DOMAIN args.rules}
             IN /\ (e.open_ok /\ e.read_ok) =>
                     \A n \in 1..Len(lines), id \in ids :
                         Decodes(LineBytes(lines[n])) =>
                             Cardinality({k \in DOMAIN out :
                                            /\ out[k].line_number = n
                                            /\ out[k].rule_id = id})
                             = Cardinality({k \in DOMAIN args.rules :
                                              /\ args.rules[k].id = id
                                              /\ ~NoneCompiles(<<args.rules[k]>>)
                                              /\ Matches(args.rules[k].pattern,
                                                         LineBytes(lines[n]))})
                /\ \A k \in DOMAIN out :
                     /\ out[k].file_path = args.files[i]
                     /\ out[k].line_number \in 1..Len(lines)
                     /\ LET s == LineBytes(lines[out[k].line_number])
                        IN /\ Decodes(s)
                           /\ out[k].snippet = Trimmed(s)
                           /\ \E r \in DOMAIN args.rules :
                                /\ args.rules[r].id = out[k].rule_id
                                /\ MatchesAt(args.rules[r].pattern, s,
                                             out[k].column - 1)
                                /\ \A c \in 0..(out[k].column - 2) :
                                     ~MatchesAt(args.rules[r].pattern, s, c)
        /\ Len(result) = Len(Concat(slots, 1))
        /\ \A k \in DOMAIN result : result[k] = Concat(slots, 1)[k]

\* C6 witness: on a line that starts with a space, a rule that matches twice
\* and another rule have each given one hit, at different columns, with the
\* trimmed line as snippet.
C6_Witness ==
    /\ Returned("match_patterns")
    /\ args.rules = <<RustRule("r1", PatA), RustRule("r1", PatSpA)>>
    /\ \E j, k \in DOMAIN result :
         /\ j # k
         /\ result[j].file_path = result[k].file_path
         /\ result[j].line_number = result[k].line_number
         /\ result[j].column = 2
         /\ result[k].column = 1
         /\ result[j].snippet = <<"a", "a">>
         /\ Cardinality({m \in DOMAIN result :
                           /\ result[m].file_path = result[j].file_path
                           /\ result[m].line_number = result[j].line_number}) = 2

KindOf(out, kind) ==
    LET Test(r) == r.message.kind = kind
    IN SelectSeq(out, Test)

RulesOf(metric_rules, metric_type) ==
    LET Test(r) == r.metric_type = metric_type
    IN SelectSeq(metric_rules, Test)

\* C7: in validate_files, for each of the three categories (size_bytes
\* metric, line_count metric, regex), when no rule of the category is active
\* no result of the category is emitted and no read pass is made for it: a
\* file is opened for line counting only if a line_count rule exists and for
\* pattern scanning only if a regex rule compiled; and the results of a
\* category are those its own rules give alone.
C7_CategorySkipping ==
    op = "validate_files" =>
        LET size_rules == RulesOf(args.metric_rules, "size_bytes")
            line_rules == RulesOf(args.metric_rules, "line_count")
            active_regexes == ~NoneCompiles(args.regex_rules)
        IN /\ \A p \in Paths :
                /\ [path |-> p, pass |-> "count"] \in opened => line_rules # <<>>
                /\ [path |-> p, pass |-> "scan"] \in opened =>
                       \E k \in DOMAIN args.regex_rules :
                           ~NoneCompiles(<<args.regex_rules[k]>>)
           /\ \A i \in DOMAIN slots :
                slots[i].done =>
                    LET out == slots[i].out
                        path == args.files[i]
                    IN /\ size_rules = <<>> => KindOf(out, "File size") = <<>>
                       /\ line_rules = <<>> => KindOf(out, "Line count") = <<>>
                       /\ NoneCompiles(args.regex_rules) =>
                              KindOf(out, "Pattern match found") = <<>>
                       /\ KindOf(out, "File size") =
                              FileResults(path, fs[path], <<>>, size_rules)
                       /\ KindOf(out, "Line count") =
                              FileResults(path, fs[path], <<>>, line_rules)
                       /\ KindOf(out, "Pattern match found") =
                              FileResults(path, fs[path],
                                          CompileRules(args.regex_rules), <<>>)

\* C7 witness: with a line_count rule, no size_bytes rule and a regex rule
\* that does not compile, a file over the line limit got its line_count
\* result from a counting pass, and was not opened for scanning.
C7_Witness ==
    /\ Returned("validate_files")
    /\ RulesOf(args.metric_rules, "size_bytes") = <<>>
    /\ args.regex_rules # <<>>
    /\ \E k \in DOMAIN result :
         /\ result[k].message.kind = "Line count"
         /\ [path |-> result[k].file_path, pass |-> "count"] \in opened
         /\ [path |-> result[k].file_path, pass |-> "scan"] \notin opened
         /\ FileLen(fs[result[k].file_path]) > 0

LineOf(r) == IF op = "match_patterns" THEN r.line_number ELSE r.line

NonDecreasing(records) ==
    \A j, k \in DOMAIN records : j < k => LineOf(records[j]) <= LineOf(records[k])

RecordsOf(p) ==
    LET Test(r) == r.file_path = p
    IN SelectSeq(result, Test)

Occurrences(p, files) == Cardinality({i \in DOMAIN files : files[i] = p})

ScanReturned == Returned("match_patterns") \/ Returned("validate_files")

\* C9 (as claimed): for every input path sequence and every path in it, the
\* records attributed to that path in the sequence match_patterns, and
\* likewise validate_files, returns have non-decreasing line numbers.
C9_PerPathLineOrder ==
    ScanReturned => \A p \in Paths : NonDecreasing(RecordsOf(p))

\* C9 (amended): the returned sequence is the records of each entry of the
\* input path sequence, entry after entry in input order, and the records of
\* one entry have non-decreasing line numbers (metric results, line 0,
\* first); so the records of a path that occurs once in the input appear in
\* line order.
C9_PerEntryLineOrder ==
    ScanReturned =>
        /\ Len(result) = Len(Concat(slots, 1))
        /\ \A k \in DOMAIN result : result[k] = Concat(slots, 1)[k]
        /\ \A i \in DOMAIN slots :
             /\ NonDecreasing(slots[i].out)
             /\ \A k \in DOMAIN slots[i].out :
                  slots[i].out[k].file_path = args.files[i]
        /\ \A p \in Paths :
             Occurrences(p, args.files) = 1 => NonDecreasing(RecordsOf(p))

\* C9 witness: validate_files has returned, for a path that occurs once in a
\* two-entry input, a metric result followed by pattern results of two
\* different lines.
C9_Witness ==
    /\ Returned("validate_files")
    /\ Len(args.files) = 2
    /\ \E p \in Paths :
         /\ Occurrences(p, args.files) = 1
         /\ \E j, k, l \in DOMAIN RecordsOf(p) :
              /\ RecordsOf(p)[j].line = 0
              /\ RecordsOf(p)[k].line = 1
              /\ RecordsOf(p)[l].line > 1

QueryRan(q) == queries # <<>> /\ queries[q] # "" /\ args.query_ok[q]

\* C8: every language tag with a registered grammar (python, typescript,
\* javascript, go, java) defines all four queries, so the extractor runs a
\* non-empty query in each of the four categories for it; only tags without
\* a registered grammar take the all-empty result path.
C8_GrammarHasFourQueries ==
    op = "get_ast_metadata" =>
        /\ args.language \in {"python", "typescript", "javascript", "go", "java"}
               <=> get_language_parser(args.language) # NoGrammar
        /\ get_language_parser(args.language) # NoGrammar =>
               /\ Len(queries) = 4
               /\ \A q \in 1..4 : queries[q] # ""
        /\ get_language_parser(args.language) = NoGrammar <=> queries = <<>>

\* the characters of the text before its first newline
FirstLineChars(chars) ==
    LET nl == {k \in 1..Len(chars) : chars[k] = "LF"}
    IN IF nl = {} THEN chars
       ELSE SubSeq(chars, 1, (CHOOSE k \in nl : \A j \in nl : k <= j) - 1)

\* the first line of the parent's text when it has at most 200 characters,
\* else its first 200 characters and the ellipsis
ExpectedSnippet(capture) ==
    LET pad == capture.parent.pad
        line == FirstLineChars(capture.parent.chars)
    IN IF pad + Len(line) <= SnippetCut
       THEN [text |-> Str(pad, line), ellipsis |-> FALSE]
       ELSE IF pad >= SnippetCut
            THEN [text |-> Str(SnippetCut, <<>>), ellipsis |-> TRUE]
            ELSE [text |-> Str(pad, SubSeq(line, 1, SnippetCut - pad)),
                  ellipsis |-> TRUE]

\* C10: for every definition capture get_ast_metadata completes without
\* failing, and the code_snippet is the first line of the parent node's text
\* when that line has at most 200 characters, else its first 200 characters
\* followed by "...", also with multi-byte characters around the cut.
C10_SnippetOfFirstLine ==
    (op = "get_ast_metadata" /\ pc = "done") =>
        /\ ~failed
        /\ QueryRan(1) =>
             \A k \in DOMAIN args.tree.functions :
                 result[1].functions[k].code_snippet =
                     ExpectedSnippet(args.tree.functions[k])
        /\ QueryRan(2) =>
             \A k \in DOMAIN args.tree.classes :
                 result[1].classes[k].code_snippet =
                     ExpectedSnippet(args.tree.classes[k])
        /\ QueryRan(3) =>
             \A k \in DOMAIN args.tree.imports :
                 result[1].imports[k].code_snippet =
                     ExpectedSnippet(args.tree.imports[k])

===========================================================================
